---- MODULE Spec2Model ----
(***************************************************************************)
(* CTR processor: company identification, the learned-company config      *)
(* store and the per-company aggregation of search volume and traffic,    *)
(* for the command-line variant (ctr_processor.py) and the Streamlit      *)
(* variant (streamlit_app.py).                                            *)
(*                                                                         *)
(* Text is modelled as a sequence of one-character strings, so that       *)
(* lower(), strip(), isupper() and the substring test are computed.       *)
(* Numbers are counted in halves (1 is 0.5, 2 is 1.0), so that int() has  *)
(* something to truncate.                                                  *)
(***************************************************************************)
EXTENDS Integers, Sequences, FiniteSets, TLC

VARIABLES pc, variant, api_key, nfiles, idx, monthly_data, company_aggregates,
          newly_detected, result, config_file, cache, requests, errors, last

vars == <<pc, variant, api_key, nfiles, idx, monthly_data, company_aggregates,
          newly_detected, result, config_file, cache, requests, errors, last>>

(***************************************************************************)
(* Bounds                                                                  *)
(***************************************************************************)
\* longest keyword column handed to the command-line matcher
MaxKeywords == 3
\* longest run of distinct short keywords put in front of a learn() input
MaxShort == 10
\* largest batch of files
MaxFiles == 3

(***************************************************************************)
(* Text                                                                    *)
(***************************************************************************)
UpperLetters == <<"A","B","C","D","E","F","G","H","I","J","K","L","M",
                  "N","O","P","Q","R","S","T","U","V","W","X","Y","Z">>
LowerLetters == <<"a","b","c","d","e","f","g","h","i","j","k","l","m",
                  "n","o","p","q","r","s","t","u","v","w","x","y","z">>

\* code point order of the characters used: space, upper case, lower case
CodeOrder == <<" ">> \o UpperLetters \o LowerLetters

Ord(c) == CHOOSE i \in 1..Len(CodeOrder) : CodeOrder[i] = c

\* a missing cell (NaN / None read from the sheet), and Python's None
NaN == <<"NaN">>
None == <<"None">>

notna(kw) == kw # NaN

isupper(c) == \E i \in 1..Len(UpperLetters) : UpperLetters[i] = c

LowerChar(c) ==
    IF isupper(c)
    THEN LowerLetters[CHOOSE i \in 1..Len(UpperLetters) : UpperLetters[i] = c]
    ELSE c

\* str.lower()
lower(s) == [i \in 1..Len(s) |-> LowerChar(s[i])]

RECURSIVE lstrip(_)
lstrip(s) == IF s # <<>> /\ Head(s) = " " THEN lstrip(Tail(s)) ELSE s

RECURSIVE rstrip(_)
rstrip(s) ==
    IF s # <<>> /\ s[Len(s)] = " " THEN rstrip(SubSeq(s, 1, Len(s) - 1)) ELSE s

\* str.strip()
strip(s) == rstrip(lstrip(s))

\* Python's `indicator in keyword`
In(indicator, keyword) ==
    \E i \in 0..(Len(keyword) - Len(indicator)) :
        SubSeq(keyword, i + 1, i + Len(indicator)) = indicator

\* s < t for two str values (code point order, a proper prefix is smaller)
StrLess(s, t) ==
    \E i \in 1..(Len(t)) :
        /\ i <= Len(s) + 1
        /\ \A j \in 1..(i - 1) : s[j] = t[j]
        /\ \/ i = Len(s) + 1
           \/ i <= Len(s) /\ Ord(s[i]) < Ord(t[i])

Range(xs) == {xs[i] : i \in 1..Len(xs)}

\* all sequences over S of length at most n
SeqUpTo(S, n) == UNION {[1..k -> S] : k \in 0..n}

(***************************************************************************)
(* Names and phrases                                                       *)
(***************************************************************************)
UnknownCompany == <<"U","n","k","n","o","w","n"," ","C","o","m","p","a","n","y">>
BankOfAmerica == <<"B","a","n","k"," ","o","f"," ","A","m","e","r","i","c","a">>
WellsFargo == <<"W","e","l","l","s"," ","F","a","r","g","o">>
Citibank == <<"C","i","t","i","b","a","n","k">>
Chase == <<"C","h","a","s","e">>
CapitalOne == <<"C","a","p","i","t","a","l"," ","O","n","e">>
AmericanExpress ==
    <<"A","m","e","r","i","c","a","n"," ","E","x","p","r","e","s","s">>
Acme == <<"A","c","m","e">>

\* the built-in dictionary, in insertion order: <<company, indicators>>
DefaultCompanies ==
    << <<BankOfAmerica, << lower(BankOfAmerica), <<"b","o","f","a">>,
                           <<"b"," ","o","f"," ","a">> >> >>,
       <<WellsFargo, << lower(WellsFargo),
                        <<"w","e","l","l","s","f","a","r","g","o">> >> >>,
       <<Citibank, << lower(Citibank), <<"c","i","t","i">> >> >>,
       <<Chase, << lower(Chase),
                   <<"j","p"," ","m","o","r","g","a","n"," ","c","h","a","s","e">>,
                   <<"j","p","m","o","r","g","a","n">> >> >>,
       <<CapitalOne, << lower(CapitalOne) >> >>,
       <<AmericanExpress, << lower(AmericanExpress), <<"a","m","e","x">> >> >> >>

\* dict helpers over a sequence of <<key, value>> pairs
Keys(d) == {d[i][1] : i \in 1..Len(d)}
Get(d, k) == d[CHOOSE i \in 1..Len(d) : d[i][1] = k][2]

(***************************************************************************)
(* ctr_processor.identify_company                                          *)
(***************************************************************************)
\* a matcher that forgets .lower()
KeywordsNotLowered(keywords_list) == SelectSeq(keywords_list, notna)

\* keywords_lower = [str(kw).lower() for kw in keywords_list if pd.notna(kw)]
keywords_lower_cli(keywords_list) ==
    LET kept == SelectSeq(keywords_list, notna)
    IN  [i \in 1..Len(kept) |-> lower(kept[i])]

\* a matcher that stops at the first indicator found in a keyword
IndicatorHitsOnce(indicators, keyword) ==
    IF \E j \in 1..Len(indicators) : In(indicators[j], keyword) THEN 1 ELSE 0

\* the inner loop over one company's indicators for one keyword:
\* company_counts[company] += 1 for every indicator found in the keyword
RECURSIVE IndicatorHits(_, _)
IndicatorHits(indicators, keyword) ==
    IF indicators = <<>> THEN 0
    ELSE (IF In(Head(indicators), keyword) THEN 1 ELSE 0)
         + IndicatorHits(Tail(indicators), keyword)

\* company_counts[company] after the loop over all keywords
RECURSIVE CountFor(_, _)
CountFor(indicators, keywords) ==
    IF keywords = <<>> THEN 0
    ELSE IndicatorHits(indicators, Head(keywords))
         + CountFor(indicators, Tail(keywords))

company_counts(company_indicators, keywords) ==
    [i \in 1..Len(company_indicators) |->
        CountFor(company_indicators[i][2], keywords)]

\* max(company_counts.values())
MaxCount(counts) == CHOOSE m \in Range(counts) : \A n \in Range(counts) : n <= m

\* max(company_counts, key=company_counts.get): the first key, in the
\* dictionary's order, that carries the largest count
ArgMaxFirst(company_indicators, counts) ==
    LET i == CHOOSE k \in 1..Len(counts) :
                 /\ counts[k] = MaxCount(counts)
                 /\ \A j \in 1..(k - 1) : counts[j] # MaxCount(counts)
    IN  company_indicators[i][1]

cli_identify_company(keywords_list) ==
    LET counts == company_counts(DefaultCompanies,
                                 keywords_lower_cli(keywords_list))
    IN  IF MaxCount(counts) > 0
        THEN ArgMaxFirst(DefaultCompanies, counts)
        ELSE UnknownCompany

(***************************************************************************)
(* collections.Counter                                                     *)
(***************************************************************************)
\* one update of a Counter, kept as <<key, count>> pairs in insertion order
CounterAdd(c, x) ==
    IF \E i \in 1..Len(c) : c[i][1] = x
    THEN LET i == CHOOSE k \in 1..Len(c) : c[k][1] = x
         IN  [c EXCEPT ![i] = <<x, c[i][2] + 1>>]
    ELSE Append(c, <<x, 1>>)

\* Counter(xs)
RECURSIVE Counter(_)
Counter(xs) ==
    IF xs = <<>> THEN <<>>
    ELSE CounterAdd(Counter(SubSeq(xs, 1, Len(xs) - 1)), xs[Len(xs)])

\* the keys of Counter(xs), in insertion order (first occurrences)
CounterKeys(xs) ==
    LET c == Counter(xs) IN SubSeq([i \in 1..Len(c) |-> c[i][1]], 1, Len(c))

\* item, which came before every pair of sorted, put after the pairs with a
\* larger count and before the others
InsertByCount(sorted, item) ==
    LET ahead == Cardinality({i \in 1..Len(sorted) : sorted[i][2] > item[2]})
    IN  SubSeq(sorted, 1, ahead) \o <<item>>
            \o SubSeq(sorted, ahead + 1, Len(sorted))

\* the pairs ordered by count, largest first, equal counts in insertion order
RECURSIVE SortByCount(_)
SortByCount(c) ==
    IF c = <<>> THEN <<>> ELSE InsertByCount(SortByCount(Tail(c)), Head(c))

\* [kw for kw, count in Counter(xs).most_common(n)]
most_common(xs, n) ==
    LET sorted == SortByCount(Counter(xs))
        m == IF Len(sorted) < n THEN Len(sorted) ELSE n
    IN  SubSeq([i \in 1..Len(sorted) |-> sorted[i][1]], 1, m)

(***************************************************************************)
(* streamlit_app: fallback extractor                                       *)
(***************************************************************************)
\* [str(kw).strip() for kw in keywords_list if pd.notna(kw)]
keywords_str(keywords_list) ==
    LET kept == SelectSeq(keywords_list, notna)
    IN  [i \in 1..Len(kept) |-> strip(kept[i])]

StartsUpper(kw) == kw # <<>> /\ isupper(kw[1])

extract_company_name_from_keywords(keywords_list) ==
    LET potential_companies == SelectSeq(keywords_str(keywords_list), StartsUpper)
    IN  IF potential_companies = <<>>
        THEN None
        ELSE most_common(potential_companies, 1)[1]

(***************************************************************************)
(* streamlit_app: config store                                             *)
(***************************************************************************)
\* company_config.json: absent, present with malformed content, or present
\* holding {"companies": companies}
AbsentFile == [state |-> "absent", companies |-> <<>>]
MalformedFile == [state |-> "malformed", companies |-> <<>>]
ConfigFile(companies) == [state |-> "ok", companies |-> companies]

\* st.cache_resource: nothing cached, or the dictionary load returned last
EmptyCache == [valid |-> FALSE, value |-> <<>>]

\* json.dump writes a None key as the text null; str keys are kept
JsonKey(k) == IF k = None THEN <<"n","u","l","l">> ELSE k
ToJson(company_indicators) ==
    [i \in 1..Len(company_indicators) |->
        <<JsonKey(company_indicators[i][1]), company_indicators[i][2]>>]

\* json.load of the "companies" object: a key written twice keeps its first
\* position and its last value
FromJson(pairs) ==
    LET keys == CounterKeys([i \in 1..Len(pairs) |-> pairs[i][1]])
        LastOf(k) == CHOOSE i \in 1..Len(pairs) :
                         /\ pairs[i][1] = k
                         /\ \A j \in (i + 1)..Len(pairs) : pairs[j][1] # k
    IN  [n \in 1..Len(keys) |-> <<keys[n], pairs[LastOf(keys[n])][2]>>]

\* load_company_config under @st.cache_resource: only FileNotFoundError is
\* caught; a raised call caches nothing
Loaded(companies) ==
    [raised |-> FALSE, ret |-> companies,
     cache |-> [valid |-> TRUE, value |-> companies]]

load_company_config(file, c) ==
    IF c.valid
    THEN [raised |-> FALSE, ret |-> c.value, cache |-> c]
    ELSE CASE file.state = "absent" -> Loaded(DefaultCompanies)
           [] file.state = "malformed" ->
                [raised |-> TRUE, ret |-> <<>>, cache |-> c]
           [] OTHER -> Loaded(FromJson(file.companies))

\* save_company_config: overwrite the file, then st.cache_resource.clear()
save_company_config(company_indicators) ==
    [file |-> ConfigFile(ToJson(company_indicators)), cache |-> EmptyCache]

\* [str(kw).lower().strip() for kw in keywords_list if pd.notna(kw)]
keywords_lower(keywords_list) ==
    LET kept == SelectSeq(keywords_list, notna)
    IN  [i \in 1..Len(kept) |-> strip(lower(kept[i]))]

\* most_common(10)
MostCommonLimit == 10

LongEnough(kw) == kw # <<>> /\ Len(kw) > 2

\* a learn that forgets the length filter
LearnedUnfiltered(keywords_list) ==
    most_common(keywords_lower(keywords_list), MostCommonLimit)

\* [kw for kw, count in keyword_freq.most_common(10) if kw and len(kw) > 2]
learned_keywords(keywords_list) ==
    SelectSeq(most_common(keywords_lower(keywords_list), MostCommonLimit),
              LongEnough)

\* auto_learn_company once company_indicators (l) and learned_keywords
\* (learned) are computed
AutoLearnWith(company_name, l, learned, file) ==
    IF l.raised
    THEN [raised |-> TRUE, ret |-> FALSE, file |-> file, cache |-> l.cache]
    ELSE IF company_name \notin Keys(l.ret) /\ learned # <<>>
    THEN [raised |-> FALSE, ret |-> TRUE,
          file |-> save_company_config(
                       Append(l.ret, <<company_name, learned>>)).file,
          cache |-> save_company_config(
                        Append(l.ret, <<company_name, learned>>)).cache]
    ELSE [raised |-> FALSE, ret |-> FALSE, file |-> file, cache |-> l.cache]

auto_learn_company(company_name, keywords_list, file, c) ==
    AutoLearnWith(company_name, load_company_config(file, c),
                  learned_keywords(keywords_list), file)

(***************************************************************************)
(* streamlit_app: AI classifier and identify_company                       *)
(***************************************************************************)
\* [:20]
PromptKeywords == 20

\* ", ".join(parts)
RECURSIVE Join(_)
Join(parts) ==
    IF parts = <<>> THEN <<>>
    ELSE IF Len(parts) = 1 THEN parts[1]
    ELSE parts[1] \o <<",", " ">> \o Join(Tail(parts))

\* what the remote completion does: it raises, or it answers with a text
Raises == [raises |-> TRUE, content |-> <<>>]
Answers(content) == [raises |-> FALSE, content |-> content]

\* identify_company_with_ai: ret is the returned name, requested tells
\* whether client.chat.completions.create was called
AiAnswer(company_name) ==
    IF company_name # <<>> /\ company_name # UnknownCompany
    THEN company_name
    ELSE UnknownCompany

Prompt(all) ==
    Join(SubSeq(all, 1, IF Len(all) < PromptKeywords
                        THEN Len(all) ELSE PromptKeywords))

identify_company_with_ai(keywords_list, key, reply) ==
    IF strip(Prompt(keywords_str(keywords_list))) = <<>>
    THEN [ret |-> UnknownCompany, requested |-> FALSE]
    ELSE IF key = "" \/ reply.raises
    THEN [ret |-> extract_company_name_from_keywords(keywords_list),
          requested |-> key # ""]
    ELSE [ret |-> AiAnswer(strip(reply.content)), requested |-> TRUE]

\* streamlit_app.identify_company: ret is the returned name; learn_called
\* tells whether auto_learn_company was invoked, learned what it returned.
\* ai is what identify_company_with_ai returned, l what load_company_config
\* returned, learn what auto_learn_company returns when it is called.
IdentifyWith(ai, l, learn, file, c) ==
    LET same == [raised |-> FALSE, ret |-> ai.ret, requested |-> ai.requested,
                 learn_called |-> FALSE, learned |-> FALSE,
                 file |-> file, cache |-> c]
    IN  IF ai.ret = UnknownCompany THEN same
        ELSE IF l.raised
        THEN [same EXCEPT !.raised = TRUE, !.cache = l.cache]
        ELSE IF ai.ret \notin Keys(l.ret)
        THEN [same EXCEPT !.raised = learn.raised, !.learn_called = TRUE,
                          !.learned = learn.ret,
                          !.file = learn.file, !.cache = learn.cache]
        ELSE [same EXCEPT !.cache = l.cache]

IdentifyLearning(keywords_list, ai, l, file, c) ==
    IdentifyWith(ai, l,
                 auto_learn_company(ai.ret, keywords_list, file, l.cache),
                 file, c)

app_identify_company(keywords_list, key, reply, file, c) ==
    IdentifyLearning(keywords_list,
                     identify_company_with_ai(keywords_list, key, reply),
                     load_company_config(file, c), file, c)

(***************************************************************************)
(* Numbers (counted in halves) and the per-file totals                     *)
(***************************************************************************)
\* a sheet cell of a numeric column: a number, or text pd.to_numeric coerces
\* to NaN
Num(v) == [numeric |-> TRUE, val |-> v]
Text == [numeric |-> FALSE, val |-> 0]

\* pd.to_numeric(col, errors='coerce').sum(): NaN cells are skipped
RECURSIVE ColumnSum(_)
ColumnSum(col) ==
    IF col = <<>> THEN 0
    ELSE (IF Head(col).numeric THEN Head(col).val ELSE 0) + ColumnSum(Tail(col))

\* int(x): truncation toward zero, x and the result counted in halves
int(x) == IF x >= 0 THEN 2 * (x \div 2) ELSE -(2 * ((-x) \div 2))

\* a guard that tests "not 0" where the code tests "> 0"
CtrUnlessZero(total_traffic, total_search_volume) ==
    IF total_search_volume # 0
    THEN [num |-> total_traffic, den |-> total_search_volume]
    ELSE [num |-> 0, den |-> 1]

\* CTR as the fraction num/den
Zero == [num |-> 0, den |-> 1]
ctr(total_traffic, total_search_volume) ==
    IF total_search_volume > 0
    THEN [num |-> total_traffic, den |-> total_search_volume]
    ELSE Zero

(***************************************************************************)
(* Inputs                                                                  *)
(***************************************************************************)
\* keyword cells handed to the command-line matcher
Citi == <<"c","i","t","i">>
JpMorganChase == <<"j","p"," ","m","o","r","g","a","n"," ","c","h","a","s","e">>
AmexCard == <<"A","m","e","x"," ","C","a","r","d">>
Loans == <<"l","o","a","n","s">>
MatchCells == {NaN, Citi, lower(Citibank), lower(Chase), JpMorganChase,
               AmexCard, Loans}

\* keyword columns of the files of a batch
Ab == <<"A","b">>
FileKeywords == { <<NaN>>, <<NaN, Loans>>, <<Chase, Loans>>, <<Ab>> }

\* the numeric columns D and H of the files of a batch, in halves: 1.5 and
\* 0.5 with a text cell, -1.5 and 1.0 with a text cell (two such files of one
\* company total a search volume of 0)
Sheets ==
    { [volume |-> <<Num(3), Text>>, traffic |-> <<Num(1), Num(0)>>],
      [volume |-> <<Text, Num(-4), Num(1)>>, traffic |-> <<Num(2), Text>>] }

\* a file of the batch: unreadable, or a sheet with ncols columns
File(readable, ncols, keywords, sheet) ==
    [readable |-> readable, ncols |-> ncols, keywords |-> keywords,
     volume |-> sheet.volume, traffic |-> sheet.traffic]
NoSheet == [volume |-> <<>>, traffic |-> <<>>]
BadFiles == { File(FALSE, 0, <<>>, NoSheet), File(TRUE, 3, <<Acme>>, NoSheet),
              File(TRUE, 7, <<Acme>>, NoSheet) }
GoodFiles == { File(TRUE, 8, k, sh) : k \in FileKeywords, sh \in Sheets }
Files == BadFiles \cup GoodFiles

\* what the remote completion may do
Replies == { Raises, Answers(UnknownCompany), Answers(<<" ">> \o Acme) }

\* arguments of a direct call of auto_learn_company
ShortKeywords(n) == [i \in 1..n |-> <<LowerLetters[i]>>]
LearnTails == { <<>>, <<Acme>>,
                <<NaN, <<" ">> \o lower(Acme) \o <<" ">>, Ab, Acme>> }
LearnKeywords ==
    { ShortKeywords(n) \o t : n \in 0..MaxShort, t \in LearnTails }
LearnNames == { Acme, Chase, None }

(***************************************************************************)
(* State                                                                   *)
(***************************************************************************)
Unset == [kind |-> "unset", company_summary |-> <<>>, monthly_data |-> <<>>,
          newly_detected |-> <<>>]
ReturnsNone == [Unset EXCEPT !.kind = "None"]
Nothing == [op |-> "none"]

\* everything but pc, config_file, cache and last
Idle ==
    /\ variant = "none" /\ api_key = "" /\ nfiles = 0 /\ idx = 0
    /\ monthly_data = <<>> /\ company_aggregates = <<>>
    /\ newly_detected = <<>> /\ result = Unset /\ requests = 0
    /\ errors = {}

IdleUnchanged ==
    UNCHANGED <<variant, api_key, nfiles, idx, monthly_data, company_aggregates,
                newly_detected, result, requests, errors>>

(***************************************************************************)
(* The matcher alone: ctr_processor.identify_company on one keyword column *)
(***************************************************************************)
InitMatch ==
    /\ Idle
    /\ pc = "match"
    /\ config_file = AbsentFile /\ cache = EmptyCache
    /\ \E k \in SeqUpTo(MatchCells, MaxKeywords) :
           last = [op |-> "input", keywords_list |-> k]

Identify ==
    /\ pc = "match"
    /\ pc' = "matched"
    /\ last' = [op |-> "identify_company",
                keywords_list |-> last.keywords_list,
                ret |-> cli_identify_company(last.keywords_list)]
    /\ IdleUnchanged
    /\ UNCHANGED <<config_file, cache>>

NextMatch == Identify

SpecMatch == InitMatch /\ [][NextMatch]_vars

(***************************************************************************)
(* The config store alone: load() and learn() called in any order          *)
(***************************************************************************)
InitStore ==
    /\ Idle
    /\ pc = "store"
    /\ config_file \in {AbsentFile, MalformedFile, ConfigFile(<<>>),
                        ConfigFile(DefaultCompanies)}
    /\ cache = EmptyCache
    /\ last = Nothing

\* load_company_config()
Load ==
    /\ pc = "store"
    /\ \E l \in {load_company_config(config_file, cache)} :
           /\ cache' = l.cache
           /\ last' = [op |-> "load", raised |-> l.raised, ret |-> l.ret,
                       file_was |-> config_file.state]
    /\ UNCHANGED <<pc, config_file>>
    /\ IdleUnchanged

\* auto_learn_company(company_name, keywords_list)
Learn ==
    /\ pc = "store"
    /\ \E company_name \in LearnNames, keywords_list \in LearnKeywords :
       \E before \in {load_company_config(config_file, cache)} :
       \E r \in {auto_learn_company(company_name, keywords_list,
                                    config_file, cache)} :
           /\ config_file' = r.file
           /\ cache' = r.cache
           /\ last' = [op |-> "learn", company_name |-> company_name,
                       keywords_list |-> keywords_list,
                       raised |-> r.raised, ret |-> r.ret,
                       known |-> company_name \in Keys(before.ret)]
    /\ UNCHANGED pc
    /\ IdleUnchanged

NextStore == Load \/ Learn

SpecStore == InitStore /\ [][NextStore]_vars

(***************************************************************************)
(* process_excel_files, both variants                                      *)
(***************************************************************************)
\* for file_path in sorted(excel_files) / for idx, uploaded_file in ...
\* The batch holds nfiles files; what each file holds is drawn when the loop
\* reaches it.
Init ==
    /\ pc = "start"
    /\ variant \in {"cli", "app"}
    /\ api_key \in (IF variant = "app" THEN {"", "key"} ELSE {""})
    /\ config_file \in (IF variant = "app" THEN {AbsentFile, MalformedFile}
                                           ELSE {AbsentFile})
    /\ cache = EmptyCache
    /\ nfiles \in 0..MaxFiles
    /\ idx = 0
    /\ monthly_data = <<>>
    /\ company_aggregates = <<>>
    /\ newly_detected = <<>>
    /\ result = Unset
    /\ requests = 0
    /\ errors = {}
    /\ last = Nothing

\* the guards in front of the loop: an empty batch, and (Streamlit variant)
\* a missing API key, return None
Begin ==
    /\ pc = "start"
    /\ IF nfiles = 0 \/ (variant = "app" /\ api_key = "")
       THEN pc' = "done" /\ result' = ReturnsNone
       ELSE pc' = "loop" /\ UNCHANGED result
    /\ UNCHANGED <<variant, api_key, nfiles, idx, monthly_data,
                   company_aggregates, newly_detected, config_file, cache,
                   requests, errors, last>>

\* df = pd.read_excel(...); df.iloc[:, 3]; df.iloc[:, 7]; df.iloc[:, 0]
ReadOk(f) == f.readable /\ f.ncols > 3 /\ f.ncols > 7

\* company_aggregates after adding one file's totals
Aggregated(aggregates, company, volume, traffic) ==
    IF company \in DOMAIN aggregates
    THEN [aggregates EXCEPT ![company] =
             [volume |-> @.volume + volume, traffic |-> @.traffic + traffic]]
    ELSE (company :> [volume |-> volume, traffic |-> traffic]) @@ aggregates

\* the except branch: the file is reported and skipped
Skipped(f, reply) ==
    /\ errors' = errors \cup {idx + 1}
    /\ last' = [op |-> "file", file |-> idx + 1, keywords |-> f.keywords,
                reply |-> reply, read_ok |-> ReadOk(f), outcome |-> "error",
                company |-> None, known |-> FALSE, learn_called |-> FALSE,
                learned |-> FALSE]
    /\ UNCHANGED <<monthly_data, company_aggregates, newly_detected>>

\* one iteration of the loop of ctr_processor.process_excel_files
CliProcessFile ==
    /\ pc = "loop" /\ variant = "cli" /\ idx < nfiles
    /\ \E f \in Files :
         IF ~ReadOk(f)
         THEN Skipped(f, Raises)
         ELSE \E company \in {cli_identify_company(f.keywords)} :
                  /\ monthly_data' = Append(monthly_data,
                        [File |-> idx + 1, Company |-> company,
                         MonthlySearchVolume |-> ColumnSum(f.volume),
                         MonthlyTraffic |-> ColumnSum(f.traffic)])
                  /\ company_aggregates' = Aggregated(company_aggregates,
                        company, ColumnSum(f.volume), ColumnSum(f.traffic))
                  /\ last' = [op |-> "file", file |-> idx + 1,
                              keywords |-> f.keywords, reply |-> Raises,
                              read_ok |-> TRUE, outcome |-> "ok",
                              company |-> company,
                              known |-> company \in Keys(DefaultCompanies),
                              learn_called |-> FALSE, learned |-> FALSE]
                  /\ UNCHANGED <<newly_detected, errors>>
    /\ idx' = idx + 1
    /\ UNCHANGED <<pc, variant, api_key, nfiles, result, config_file, cache,
                   requests>>

\* one iteration of the loop of streamlit_app.process_excel_files
AppProcessFile ==
    /\ pc = "loop" /\ variant = "app" /\ idx < nfiles
    /\ \E f \in Files, reply \in Replies :
         IF ~ReadOk(f)
         THEN /\ Skipped(f, reply)
              /\ UNCHANGED <<config_file, cache, requests>>
         ELSE \E id \in {app_identify_company(f.keywords, api_key, reply,
                                               config_file, cache)} :
              \E config_companies \in
                      {load_company_config(id.file, id.cache)} :
                  /\ requests' = requests + (IF id.requested THEN 1 ELSE 0)
                  /\ config_file' = id.file
                  /\ IF id.raised
                     THEN cache' = id.cache /\ Skipped(f, reply)
                     ELSE IF config_companies.raised
                     THEN cache' = config_companies.cache /\ Skipped(f, reply)
                     ELSE
                       /\ cache' = config_companies.cache
                       /\ newly_detected' =
                            IF /\ id.ret \notin Keys(config_companies.ret)
                               /\ id.ret # UnknownCompany
                               /\ id.ret \notin Range(newly_detected)
                            THEN Append(newly_detected, id.ret)
                            ELSE newly_detected
                       /\ monthly_data' = Append(monthly_data,
                            [File |-> idx + 1, Company |-> id.ret,
                             MonthlySearchVolume |-> int(ColumnSum(f.volume)),
                             MonthlyTraffic |-> int(ColumnSum(f.traffic))])
                       /\ company_aggregates' = Aggregated(company_aggregates,
                            id.ret, ColumnSum(f.volume), ColumnSum(f.traffic))
                       /\ last' = [op |-> "file", file |-> idx + 1,
                                   keywords |-> f.keywords, reply |-> reply,
                                   read_ok |-> TRUE, outcome |-> "ok",
                                   company |-> id.ret,
                                   known |-> id.ret \in Keys(
                                       load_company_config(config_file,
                                                           cache).ret),
                                   learn_called |-> id.learn_called,
                                   learned |-> id.learned]
                       /\ UNCHANGED errors
    /\ idx' = idx + 1
    /\ UNCHANGED <<pc, variant, api_key, nfiles, result>>

\* sorted(company_aggregates.items()): None does not compare with a str, so
\* a None key beside any other key raises TypeError
SortRaises(keys) == None \in keys /\ Cardinality(keys) > 1

RECURSIVE SortedKeys(_)
SortedKeys(keys) ==
    IF keys = {} THEN <<>>
    ELSE LET first == CHOOSE k \in keys :
                          \A j \in keys \ {k} : StrLess(k, j)
         IN  <<first>> \o SortedKeys(keys \ {first})

\* one row of company_summary
SummaryRow(company, data) ==
    [Company |-> company,
     TotalSearchVolume |->
         IF variant = "app" THEN int(data.volume) ELSE data.volume,
     TotalTraffic |->
         IF variant = "app" THEN int(data.traffic) ELSE data.traffic,
     CTR |-> ctr(data.traffic, data.volume)]

company_summary(aggregates) ==
    LET keys == SortedKeys(DOMAIN aggregates)
    IN  [i \in 1..Len(keys) |-> SummaryRow(keys[i], aggregates[keys[i]])]

\* after the loop: the summary is built and the result returned, unless the
\* sort raises (nothing catches it: process_excel_files raises)
Summarise ==
    /\ pc = "loop" /\ idx = nfiles
    /\ IF SortRaises(DOMAIN company_aggregates)
       THEN pc' = "raised" /\ UNCHANGED result
       ELSE /\ pc' = "done"
            /\ result' = [kind |-> "dict",
                          company_summary |->
                              company_summary(company_aggregates),
                          monthly_data |-> monthly_data,
                          newly_detected |-> newly_detected]
    /\ UNCHANGED <<variant, api_key, nfiles, idx, monthly_data,
                   company_aggregates, newly_detected, config_file, cache,
                   requests, errors, last>>

Next == Begin \/ CliProcessFile \/ AppProcessFile \/ Summarise

Spec == Init /\ [][Next]_vars

(***************************************************************************)
(* Claims about the matcher (checked under SpecMatch)                      *)
(***************************************************************************)
Matched == pc = "matched" /\ last.op = "identify_company"

\* the keywords the matcher looks at: the non-missing cells, lower-cased
Lowered(keywords_list) ==
    {lower(keywords_list[i]) :
        i \in {n \in 1..Len(keywords_list) : keywords_list[n] # NaN}}

CompanyIds == 1..Len(DefaultCompanies)
NameOf(c) == DefaultCompanies[c][1]
PhrasesOf(c) == Range(DefaultCompanies[c][2])

\* how many keywords of the list contain at least one phrase of company c
KeywordCount(c, keywords_list) ==
    Cardinality({i \in 1..Len(keywords_list) :
        /\ keywords_list[i] # NaN
        /\ \E p \in PhrasesOf(c) : In(p, lower(keywords_list[i]))})

\* how many (keyword, phrase) pairs of company c match: a keyword holding two
\* phrases of c counts twice
PairCount(c, keywords_list) ==
    Cardinality({ip \in (1..Len(keywords_list)) \X (1..Len(DefaultCompanies[c][2])) :
        /\ keywords_list[ip[1]] # NaN
        /\ In(DefaultCompanies[c][2][ip[2]], lower(keywords_list[ip[1]]))})

KeywordCounts(keywords_list) ==
    [c \in CompanyIds |-> KeywordCount(c, keywords_list)]
PairCounts(keywords_list) ==
    [c \in CompanyIds |-> PairCount(c, keywords_list)]

\* c carries the highest count and is the first, in dictionary order, to do so
FirstHighest(c, counts) ==
    /\ \A d \in CompanyIds : counts[d] <= counts[c]
    /\ \A d \in 1..(c - 1) : counts[d] < counts[c]

\* C1 as stated: each company's count is the number of keywords holding at
\* least one of its phrases (a keyword counts once per company), and
\* identify_company returns the company with the highest such count, the
\* first in dictionary order among equals.
C1_CountsKeywordsOnce ==
    Matched =>
        \A c \in CompanyIds :
            (/\ KeywordCount(c, last.keywords_list) > 0
             /\ FirstHighest(c, KeywordCounts(last.keywords_list)))
            => last.ret = NameOf(c)

\* C1 amended: each company's count is the number of (keyword, phrase) pairs
\* in which the keyword holds the phrase, so a keyword holding several phrases
\* of one company counts once per phrase; identify_company returns the company
\* with the highest such count, the first in dictionary order among equals,
\* and 'Unknown Company' when every count is 0.
C1_CountsPhraseHits ==
    Matched =>
        /\ \A c \in CompanyIds :
               (/\ PairCount(c, last.keywords_list) > 0
                /\ FirstHighest(c, PairCounts(last.keywords_list)))
               => last.ret = NameOf(c)
        /\ (\A c \in CompanyIds : PairCount(c, last.keywords_list) = 0)
               => last.ret = UnknownCompany

\* two companies share the highest pair count, the later one in dictionary
\* order with more matching keywords, and the earlier one is returned
C1_Witness ==
    /\ Matched
    /\ \E c, d \in CompanyIds :
           /\ c < d
           /\ PairCount(c, last.keywords_list) > 0
           /\ FirstHighest(c, PairCounts(last.keywords_list))
           /\ PairCount(d, last.keywords_list) = PairCount(c, last.keywords_list)
           /\ KeywordCount(d, last.keywords_list)
                  > KeywordCount(c, last.keywords_list)
           /\ last.ret = NameOf(c)

\* company c is the only one with a phrase in some keyword of the list
OnlyCompany(c, keywords_list) ==
    /\ \E kw \in Lowered(keywords_list) : \E p \in PhrasesOf(c) : In(p, kw)
    /\ \A d \in CompanyIds \ {c} :
           \A kw \in Lowered(keywords_list) : \A p \in PhrasesOf(d) : ~In(p, kw)

\* C2: when some keyword holds, case-insensitively, a phrase of company C and
\* no keyword holds a phrase of any other company, identify_company returns C.
C2_OnlyCompanyWins ==
    Matched =>
        \A c \in CompanyIds :
            OnlyCompany(c, last.keywords_list) => last.ret = NameOf(c)

\* the only matching keyword is written with capitals, beside a keyword that
\* matches nothing and a missing cell
C2_Witness ==
    /\ Matched
    /\ \E c \in CompanyIds :
           /\ OnlyCompany(c, last.keywords_list)
           /\ last.ret = NameOf(c)
           /\ \E i \in 1..Len(last.keywords_list) :
                  /\ last.keywords_list[i] # NaN
                  /\ lower(last.keywords_list[i]) # last.keywords_list[i]
           /\ NaN \in Range(last.keywords_list)
           /\ Loans \in Range(last.keywords_list)

(***************************************************************************)
(* Claims about the config store (checked under SpecStore)                 *)
(***************************************************************************)
\* C7: load() returns the built-in default dictionary both when
\* company_config.json is absent and when it exists but is unreadable
\* (malformed content), and raises in neither case.
C7_LoadFallsBackToDefaults ==
    (last.op = "load" /\ last.file_was \in {"absent", "malformed"})
        => (~last.raised /\ last.ret = DefaultCompanies)

\* the lower-cased, trimmed, non-missing keywords of a learn() call
Normalized(keywords_list) ==
    {strip(lower(keywords_list[i])) :
        i \in {n \in 1..Len(keywords_list) : keywords_list[n] # NaN}}

Occurrences(v, keywords_list) ==
    {i \in 1..Len(keywords_list) :
        keywords_list[i] # NaN /\ strip(lower(keywords_list[i])) = v}

FirstAt(v, keywords_list) ==
    CHOOSE i \in Occurrences(v, keywords_list) :
        \A j \in Occurrences(v, keywords_list) : i <= j

\* u is ordered before v by frequency: more frequent, or as frequent and
\* seen first
Before(u, v, keywords_list) ==
    \/ Cardinality(Occurrences(u, keywords_list))
           > Cardinality(Occurrences(v, keywords_list))
    \/ /\ Cardinality(Occurrences(u, keywords_list))
              = Cardinality(Occurrences(v, keywords_list))
       /\ FirstAt(u, keywords_list) < FirstAt(v, keywords_list)

\* the (at most 10) most frequent distinct normalized keywords
TopKeywords(keywords_list) ==
    {v \in Normalized(keywords_list) :
        Cardinality({u \in Normalized(keywords_list) :
                        Before(u, v, keywords_list)}) < MostCommonLimit}

\* the candidates learn() keeps: top keywords of 3 characters or more
Candidates(keywords_list) == {v \in TopKeywords(keywords_list) : Len(v) >= 3}

\* a learn() call for a company name the loaded dictionary does not hold
LearnOfNewName ==
    /\ last.op = "learn"
    /\ last.company_name # None
    /\ ~last.raised
    /\ ~last.known

\* what the next load() returns
NextLoad == load_company_config(config_file, cache)

NextLoadHolds(company_name) ==
    /\ ~NextLoad.raised
    /\ company_name \in Keys(NextLoad.ret)
    /\ Len(Get(NextLoad.ret, company_name)) <= 10
    /\ \A p \in Range(Get(NextLoad.ret, company_name)) : Len(p) >= 3

\* C8 as stated: for a company name absent from the dictionary and a keyword
\* list in which at least one normalized keyword has 3 or more characters,
\* learn reports learned and the next load() holds the name with at most 10
\* phrases, each of 3 characters or more.
C8_AnyLongKeywordLearns ==
    (/\ LearnOfNewName
     /\ \E v \in Normalized(last.keywords_list) : Len(v) >= 3)
        => (last.ret /\ NextLoadHolds(last.company_name))

\* C8 amended: the 10 most frequent distinct normalized keywords are taken
\* first (equal frequencies in order of first occurrence) and the short ones
\* dropped afterwards; for a company name absent from the dictionary and a
\* keyword list in which at least one of those 10 has 3 or more characters,
\* learn reports learned and the next load() holds the name, mapped to
\* exactly the keywords of 3 characters or more among those 10.
C8_TopTenThenLength ==
    (/\ LearnOfNewName
     /\ Candidates(last.keywords_list) # {})
        => /\ last.ret
           /\ NextLoadHolds(last.company_name)
           /\ Range(Get(NextLoad.ret, last.company_name))
                  = Candidates(last.keywords_list)

\* a learn that cut the keyword list: more than 10 distinct keywords, short
\* ones among the first 10, and still a candidate left
C8_Witness ==
    /\ LearnOfNewName
    /\ last.ret
    /\ Cardinality(Normalized(last.keywords_list)) > MostCommonLimit
    /\ \E v \in TopKeywords(last.keywords_list) : Len(v) < 3
    /\ Candidates(last.keywords_list) # {}
    /\ cache = EmptyCache
    /\ NextLoadHolds(last.company_name)

(***************************************************************************)
(* Claims about process_excel_files (checked under Spec)                   *)
(***************************************************************************)
FileStep == last.op = "file"
Returned == pc = "done" /\ result.kind = "dict"
Ended == pc \in {"done", "raised"}

RowCompanies == {result.company_summary[i].Company :
                    i \in 1..Len(result.company_summary)}

\* no classifier of the chain names a company for the file just read: no
\* indicator phrase of the dictionary is in any keyword and, in the Streamlit
\* variant, the remote call failed and no keyword starts with a capital
NoClassifierIdentifies ==
    /\ FileStep
    /\ last.read_ok
    /\ \A c \in CompanyIds : PairCount(c, last.keywords) = 0
    /\ variant = "app" =>
           /\ last.reply.raises
           /\ \A i \in 1..Len(last.keywords) :
                  last.keywords[i] # NaN => ~StartsUpper(strip(last.keywords[i]))

\* C3: a successfully read file for which no classifier identifies a company
\* gets a FileRecord carrying exactly 'Unknown Company', its totals go to the
\* 'Unknown Company' aggregate, and that aggregate appears in the summary.
C3_UnidentifiedIsUnknownCompany ==
    NoClassifierIdentifies =>
        /\ last.outcome = "ok"
        /\ monthly_data # <<>>
        /\ monthly_data[Len(monthly_data)].File = last.file
        /\ monthly_data[Len(monthly_data)].Company = UnknownCompany
        /\ UnknownCompany \in DOMAIN company_aggregates
        /\ Ended => (Returned /\ UnknownCompany \in RowCompanies)

\* the company's accumulated totals, as the loop left them
TotalsOf(row) == company_aggregates[row.Company]

\* num/den is the quotient traffic/volume
IsQuotient(c, traffic, volume) ==
    c.den # 0 /\ c.num * volume = traffic * c.den

IsZero(c) == c.den # 0 /\ c.num = 0

\* C4 as stated: CTR is total traffic divided by total search volume
\* whenever the total search volume is not 0, and exactly 0 when it is 0.
C4_QuotientUnlessZero ==
    Returned =>
        \A i \in 1..Len(result.company_summary) :
            LET row == result.company_summary[i]
            IN  IF TotalsOf(row).volume # 0
                THEN IsQuotient(row.CTR, TotalsOf(row).traffic,
                                TotalsOf(row).volume)
                ELSE IsZero(row.CTR)

\* C4 amended: CTR is the company's accumulated total traffic divided by its
\* accumulated total search volume (the sums before any truncation to int)
\* whenever that volume is greater than 0, and exactly 0 when it is 0 or
\* negative; no row carries a division by zero.
C4_QuotientWhenPositive ==
    Returned =>
        \A i \in 1..Len(result.company_summary) :
            LET row == result.company_summary[i]
            IN  IF TotalsOf(row).volume > 0
                THEN IsQuotient(row.CTR, TotalsOf(row).traffic,
                                TotalsOf(row).volume)
                ELSE IsZero(row.CTR)

\* a summary with a company of positive volume and a non-zero CTR beside a
\* company of negative volume, non-zero traffic and a CTR of 0
C4_Witness ==
    /\ Returned
    /\ \E i, k \in 1..Len(result.company_summary) :
           /\ TotalsOf(result.company_summary[i]).volume > 0
           /\ result.company_summary[i].CTR.num # 0
           /\ TotalsOf(result.company_summary[k]).volume < 0
           /\ TotalsOf(result.company_summary[k]).traffic # 0
           /\ IsZero(result.company_summary[k].CTR)

RECURSIVE SumTraffic(_)
SumTraffic(records) ==
    IF records = <<>> THEN 0
    ELSE Head(records).MonthlyTraffic + SumTraffic(Tail(records))

RECURSIVE SumTotalTraffic(_)
SumTotalTraffic(rows) ==
    IF rows = <<>> THEN 0
    ELSE Head(rows).TotalTraffic + SumTotalTraffic(Tail(rows))

\* C5: the sum of 'Total Traffic' over the summary rows equals the sum of
\* 'Monthly Traffic' over the file records, also for non-integer cells.
C5_TrafficConserved ==
    Returned =>
        SumTotalTraffic(result.company_summary) = SumTraffic(result.monthly_data)

RecordedFiles(records) == {records[i].File : i \in 1..Len(records)}

\* C6: a file whose processing raises adds no FileRecord and changes no
\* aggregate, the loop goes on to the next file, and process_excel_files
\* still returns a result holding the records of all other files.
C6_BadFileNeverAborts ==
    [][/\ errors' # errors =>
              /\ monthly_data' = monthly_data
              /\ company_aggregates' = company_aggregates
              /\ idx' = idx + 1
              /\ pc' = "loop"
       /\ (errors # {} /\ pc = "loop" /\ idx = nfiles) =>
              /\ pc' = "done"
              /\ result'.kind = "dict"
              /\ RecordedFiles(result'.monthly_data) = (1..nfiles) \ errors
      ]_vars

\* C9: without an API credential a non-empty batch is still processed: no
\* remote request, every file resolved locally, and a result returned that
\* holds a FileRecord for every file that did not raise.
C9_NoCredentialStillProcesses ==
    (variant = "app" /\ api_key = "" /\ nfiles > 0 /\ Ended) =>
        /\ requests = 0
        /\ Returned
        /\ RecordedFiles(result.monthly_data) = (1..nfiles) \ errors

\* C10: a file resolved to a company that is absent from the dictionary at
\* resolution time, and is not 'Unknown Company', has learn invoked for that
\* company and the company listed once in newly_detected, also when the
\* learn succeeded.
C10_NewCompanyIsListed ==
    (/\ variant = "app" /\ FileStep /\ last.outcome = "ok"
     /\ last.company # UnknownCompany
     /\ ~last.known)
        => /\ last.learn_called
           /\ Cardinality({i \in 1..Len(newly_detected) :
                              newly_detected[i] = last.company}) = 1
           /\ Returned => result.newly_detected = newly_detected

(***************************************************************************)
(* Claims about the aggregation invariant (checked under Spec)             *)
(***************************************************************************)
RecordCompanies(records) ==
    {records[i].Company : i \in 1..Len(records)}

\* the totals a company has so far, nothing when it has no aggregate yet
AggregateOf(aggregates, company) ==
    IF company \in DOMAIN aggregates THEN aggregates[company]
    ELSE [volume |-> 0, traffic |-> 0]

KeysAreRecordCompanies ==
    DOMAIN company_aggregates = RecordCompanies(monthly_data)

\* the step appends one FileRecord and adds its totals (as the record
\* stores them) to the aggregate of its company and to no other aggregate
RecordAddedToItsAggregate ==
    LET rec == monthly_data'[Len(monthly_data')]
        before == AggregateOf(company_aggregates, rec.Company)
        after == AggregateOf(company_aggregates', rec.Company)
        Stored(x) == IF variant = "app" THEN int(x) ELSE x
    IN  /\ monthly_data' = Append(monthly_data, rec)
        /\ rec.Company \in DOMAIN company_aggregates'
        /\ Stored(after.volume - before.volume) = rec.MonthlySearchVolume
        /\ Stored(after.traffic - before.traffic) = rec.MonthlyTraffic
        /\ DOMAIN company_aggregates \subseteq DOMAIN company_aggregates'
        /\ \A k \in DOMAIN company_aggregates' \ {rec.Company} :
               /\ k \in DOMAIN company_aggregates
               /\ company_aggregates'[k] = company_aggregates[k]

\* after a file has been processed, skipped or not
FileKeepsPartition ==
    (pc = "loop" /\ idx' = idx + 1) =>
        /\ KeysAreRecordCompanies'
        /\ monthly_data' # monthly_data => RecordAddedToItsAggregate

\* one row per aggregate key, in ascending company-name order
SummaryRowPerKey ==
    LET rows == result.company_summary
    IN  /\ Len(rows) = Cardinality(DOMAIN company_aggregates)
        /\ RowCompanies = DOMAIN company_aggregates
        /\ \A i, j \in 1..Len(rows) :
               i < j => StrLess(rows[i].Company, rows[j].Company)

\* when the loop over the files is over
SummaryFollowsAggregates ==
    (pc = "loop" /\ idx = nfiles /\ pc' # pc) =>
        /\ pc' = "done"
        /\ result'.kind = "dict"
        /\ SummaryRowPerKey'

\* C11: after each file the aggregate keys are the distinct companies of the
\* FileRecords so far and each FileRecord was added to the aggregate of its
\* company and no other; at the end the summary has one row per aggregate
\* key, in ascending company-name order.
C11_AggregatesPartitionRecords ==
    [][FileKeepsPartition /\ SummaryFollowsAggregates]_vars

\* the per-file half of C11 alone
C11_PerFileHalf == [][FileKeepsPartition]_vars

\* the summary half of C11 wherever a result is returned
C11_ReturnedHalf == (Returned /\ nfiles > 0) => SummaryRowPerKey

============================================================================
